---- MODULE Spec2Model ----
(***************************************************************************)
(* Sweep-and-prune broad phase of box2d (src/collision/b2BroadPhase.js).   *)
(* The broad phase object is modelled field by field; every public method  *)
(* is an operator from the object's state (a record) to its state after    *)
(* the call, and an action of the state machine.                           *)
(***************************************************************************)
EXTENDS Integers, Sequences, FiniteSets, TLC

(***************************************************************************)
(* Bounds of the model.                                                    *)
(***************************************************************************)
\* capacity of the proxy pool (box2d.Settings.b2_maxProxies)
b2_maxProxies == 3
\* in the long runs CreateProxy, DestroyProxy and QueryAABB are taken while m_timeStamp
\* is below this
MaxTimeStamp == 4
\* in the long runs CreateProxy is taken while fewer proxies than this are live
MaxLive == 2
\* largest coordinate a caller passes; the world is [0,MaxCoord] x [0,MaxCoord]
MaxCoord == 5

(***************************************************************************)
(* Constants of box2d.Settings and box2d.Pair.                             *)
(***************************************************************************)
USHRT_MAX == 65535
b2_nullProxy == USHRT_MAX
b2_invalid == USHRT_MAX

Axes == 0 .. 1
ProxyIds == 0 .. (b2_maxProxies - 1)

\* the userData a caller attaches to a proxy
Shapes == {"s0"}

Vec2(x, y) == [x |-> x, y |-> y]
AABB(minx, miny, maxx, maxy) == [minVertex |-> Vec2(minx, miny), maxVertex |-> Vec2(maxx, maxy)]

\* box2d.AABB.IsValid: max > min on every axis
IsValid(aabb) ==
  /\ aabb.maxVertex.x > aabb.minVertex.x
  /\ aabb.maxVertex.y > aabb.minVertex.y

\* the worldAABB handed to the constructor
m_worldAABB == AABB(0, 0, 5, 5)

\* m_quantizationFactor, kept as the exact fraction USHRT_MAX / d
m_quantizationFactor ==
  [x |-> [num |-> USHRT_MAX, den |-> m_worldAABB.maxVertex.x - m_worldAABB.minVertex.x],
   y |-> [num |-> USHRT_MAX, den |-> m_worldAABB.maxVertex.y - m_worldAABB.minVertex.y]]

Min(a, b) == IF a < b THEN a ELSE b
Max(a, b) == IF a > b THEN a ELSE b

\* (factor * d) converted to an integer by a bitwise operator (truncation)
Quantize(factor, d) == (factor.num * d) \div factor.den

\* n & (USHRT_MAX - 1) for n >= 0
MaskLower(n) == (n % 65536) - ((n % 65536) % 2)
\* n & 0x0000ffff, without the | 1
MaskUpper_NoOr(n) == n % 65536

\* (n & 0x0000ffff) | 1 for n >= 0
MaskUpper(n) == IF (n % 65536) % 2 = 0 THEN (n % 65536) + 1 ELSE n % 65536

\* ComputeBounds: clamp into the world, quantize, force lower even and upper odd
ComputeBounds(aabb) ==
  LET minVertexX == Max(Min(aabb.minVertex.x, m_worldAABB.maxVertex.x), m_worldAABB.minVertex.x)
      minVertexY == Max(Min(aabb.minVertex.y, m_worldAABB.maxVertex.y), m_worldAABB.minVertex.y)
      maxVertexX == Max(Min(aabb.maxVertex.x, m_worldAABB.maxVertex.x), m_worldAABB.minVertex.x)
      maxVertexY == Max(Min(aabb.maxVertex.y, m_worldAABB.maxVertex.y), m_worldAABB.minVertex.y)
  IN [lowerValues |->
        (0 :> MaskLower(Quantize(m_quantizationFactor.x, minVertexX - m_worldAABB.minVertex.x)) @@
         1 :> MaskLower(Quantize(m_quantizationFactor.y, minVertexY - m_worldAABB.minVertex.y))),
      upperValues |->
        (0 :> MaskUpper(Quantize(m_quantizationFactor.x, maxVertexX - m_worldAABB.minVertex.x)) @@
         1 :> MaskUpper(Quantize(m_quantizationFactor.y, maxVertexY - m_worldAABB.minVertex.y)))]

(***************************************************************************)
(* box2d.Bound and box2d.Proxy.                                            *)
(***************************************************************************)
Bound(value, proxyId, stabbingCount) ==
  [value |-> value, proxyId |-> proxyId, stabbingCount |-> stabbingCount]

\* new box2d.Bound()
NewBound == Bound(0, 0, 0)

IsLower(b) == b.value % 2 = 0
IsUpper(b) == b.value % 2 = 1

\* a pool slot as the constructor of the broad phase leaves it
NewProxy(next) ==
  [lowerBounds |-> [a \in Axes |-> b2_invalid],
   upperBounds |-> [a \in Axes |-> b2_invalid],
   next |-> next,
   timeStamp |-> 0,
   overlapCount |-> b2_invalid,
   userData |-> "null"]

\* box2d.Proxy.IsValid
ProxyIsValid(p) == p.overlapCount # b2_invalid

(***************************************************************************)
(* box2d.PairManager at its interface: buffered intents, applied by Commit.*)
(* Every call is also appended to the call log of the running operation;   *)
(* the entry of a Commit notes the free-list head and the proxy count of   *)
(* the broad phase at the time of the call, the entry of an AddBufferedPair*)
(* or RemoveBufferedPair whether both its proxies are valid at that time.  *)
(***************************************************************************)
Call(fn, a, b, live) == [fn |-> fn, a |-> a, b |-> b, live |-> live]

\* both ids are slots of the pool whose proxy IsValid()
BothLive(S, id1, id2) ==
  \A id \in {id1, id2} : id \in ProxyIds /\ S.pool[id].overlapCount # b2_invalid

AddBufferedPair(S, id1, id2) ==
  [S EXCEPT !.bufferedAdds = @ \cup {{id1, id2}},
            !.bufferedRemoves = @ \ {{id1, id2}},
            !.calls = Append(@, Call("AddBufferedPair", id1, id2, BothLive(S, id1, id2)))]

RemoveBufferedPair(S, id1, id2) ==
  [S EXCEPT !.bufferedRemoves = @ \cup {{id1, id2}},
            !.bufferedAdds = @ \ {{id1, id2}},
            !.calls = Append(@, Call("RemoveBufferedPair", id1, id2, BothLive(S, id1, id2)))]

PairManagerCommit(S) ==
  [S EXCEPT !.pairs = (@ \cup S.bufferedAdds) \ S.bufferedRemoves,
            !.bufferedAdds = {},
            !.bufferedRemoves = {},
            !.calls = Append(@, Call("Commit", S.freeProxy, S.proxyCount, TRUE))]

(***************************************************************************)
(* Range query engine.                                                     *)
(***************************************************************************)
\* BinarySearch with the two comparisons exchanged
RECURSIVE BinarySearchLoop_Flipped(_, _, _, _)
BinarySearchLoop_Flipped(bounds, low, high, value) ==
  IF low <= high
    THEN LET mid == (low + high) \div 2
         IN IF bounds[mid].value < value THEN BinarySearchLoop_Flipped(bounds, low, mid - 1, value)
            ELSE IF bounds[mid].value > value THEN BinarySearchLoop_Flipped(bounds, mid + 1, high, value)
            ELSE mid
    ELSE low

RECURSIVE BinarySearchLoop(_, _, _, _)
BinarySearchLoop(bounds, low, high, value) ==
  IF low <= high
    THEN LET mid == (low + high) \div 2
         IN IF bounds[mid].value > value THEN BinarySearchLoop(bounds, low, mid - 1, value)
            ELSE IF bounds[mid].value < value THEN BinarySearchLoop(bounds, mid + 1, high, value)
            ELSE mid
    ELSE low

BinarySearch(bounds, count, value) == BinarySearchLoop(bounds, 0, count - 1, value)

\* IncrementOverlapCount reporting a proxy on its first mark
IncrementOverlapCount_NoStamp(S, proxyId) ==
  IF S.pool[proxyId].timeStamp < S.timeStamp
    THEN [S EXCEPT !.pool[proxyId].timeStamp = S.timeStamp,
                   !.pool[proxyId].overlapCount = 1,
                   !.queryResults = [i \in 0 .. S.queryResultCount |->
                                       IF i = S.queryResultCount THEN proxyId ELSE @[i]],
                   !.queryResultCount = @ + 1]
    ELSE [S EXCEPT !.pool[proxyId].overlapCount = 2,
                   !.queryResults = [i \in 0 .. S.queryResultCount |->
                                       IF i = S.queryResultCount THEN proxyId ELSE @[i]],
                   !.queryResultCount = @ + 1]

IncrementOverlapCount(S, proxyId) ==
  IF S.pool[proxyId].timeStamp < S.timeStamp
    THEN [S EXCEPT !.pool[proxyId].timeStamp = S.timeStamp,
                   !.pool[proxyId].overlapCount = 1]
    ELSE [S EXCEPT !.pool[proxyId].overlapCount = 2,
                   !.queryResults = [i \in 0 .. S.queryResultCount |->
                                       IF i = S.queryResultCount THEN proxyId ELSE @[i]],
                   !.queryResultCount = @ + 1]

\* m_queryResultCount = 0: no entry of m_queryResults is in use any more
ResetQueryResults(S) == [S EXCEPT !.queryResultCount = 0, !.queryResults = << >>]

\* the wrap without the sweep over the pool at lines 446-448
IncrementTimeStamp_NoSweep(S) ==
  IF S.timeStamp = USHRT_MAX
    THEN [S EXCEPT !.timeStamp = 1]
    ELSE [S EXCEPT !.timeStamp = @ + 1]

IncrementTimeStamp(S) ==
  IF S.timeStamp = USHRT_MAX
    THEN [S EXCEPT !.pool = [i \in ProxyIds |-> [S.pool[i] EXCEPT !.timeStamp = 0]],
                   !.timeStamp = 1]
    ELSE [S EXCEPT !.timeStamp = @ + 1]

\* easy case of Query: the lower bounds in [lowerQuery, upperQuery)
RECURSIVE QueryEasy(_, _, _, _)
QueryEasy(S, bounds, j, upperQuery) ==
  IF j < upperQuery
    THEN QueryEasy(IF IsLower(bounds[j]) THEN IncrementOverlapCount(S, bounds[j].proxyId) ELSE S,
                   bounds, j + 1, upperQuery)
    ELSE S

\* the hard case of Query counting every lower bound below lowerQuery
RECURSIVE QueryHard_NoSpanCheck(_, _, _, _, _, _)
QueryHard_NoSpanCheck(S, bounds, axis, lowerQuery, i, s) ==
  IF s = 0 THEN S
  ELSE IF i < 0 THEN [S EXCEPT !.fault = TRUE]
  ELSE IF IsLower(bounds[i])
    THEN QueryHard_NoSpanCheck(IncrementOverlapCount(S, bounds[i].proxyId), bounds, axis, lowerQuery, i - 1, s - 1)
    ELSE QueryHard_NoSpanCheck(S, bounds, axis, lowerQuery, i - 1, s)

\* the hard case of Query passing over a proxy whose upper bound is at lowerQuery
RECURSIVE QueryHard_StrictSpan(_, _, _, _, _, _)
QueryHard_StrictSpan(S, bounds, axis, lowerQuery, i, s) ==
  IF s = 0 THEN S
  ELSE IF i < 0 THEN [S EXCEPT !.fault = TRUE]
  ELSE IF IsLower(bounds[i]) /\ lowerQuery < S.pool[bounds[i].proxyId].upperBounds[axis]
    THEN QueryHard_StrictSpan(IncrementOverlapCount(S, bounds[i].proxyId), bounds, axis, lowerQuery, i - 1, s - 1)
    ELSE QueryHard_StrictSpan(S, bounds, axis, lowerQuery, i - 1, s)

\* hard case of Query: walk down from lowerQuery - 1 until s spanning proxies are found;
\* reading bounds[i] with i < 0 throws, recorded in fault
RECURSIVE QueryHard(_, _, _, _, _, _)
QueryHard(S, bounds, axis, lowerQuery, i, s) ==
  IF s = 0 THEN S
  ELSE IF i < 0 THEN [S EXCEPT !.fault = TRUE]
  ELSE IF IsLower(bounds[i]) /\ lowerQuery <= S.pool[bounds[i].proxyId].upperBounds[axis]
    THEN QueryHard(IncrementOverlapCount(S, bounds[i].proxyId), bounds, axis, lowerQuery, i - 1, s - 1)
    ELSE QueryHard(S, bounds, axis, lowerQuery, i - 1, s)

Query(S, lowerValue, upperValue, bounds, boundCount, axis) ==
  LET lowerQuery == BinarySearch(bounds, boundCount, lowerValue)
      upperQuery == BinarySearch(bounds, boundCount, upperValue)
      S1 == QueryEasy(S, bounds, lowerQuery, upperQuery)
      S2 == IF lowerQuery > 0
              THEN QueryHard(S1, bounds, axis, lowerQuery, lowerQuery - 1,
                             bounds[lowerQuery - 1].stabbingCount)
              ELSE S1
  IN [S |-> S2, lowerQuery |-> lowerQuery, upperQuery |-> upperQuery]

\* the index fix that writes every index into upperBounds, whatever the bound is
RECURSIVE FixBoundIndices_UpperOnly(_, _, _, _, _)
FixBoundIndices_UpperOnly(pool, bounds, axis, index, to) ==
  IF index < to
    THEN FixBoundIndices_UpperOnly(
           [pool EXCEPT ![bounds[index].proxyId].upperBounds[axis] = index],
           bounds, axis, index + 1, to)
    ELSE pool

\* "Adjust the all the affected bound indices": for index in [from, to)
RECURSIVE FixBoundIndices(_, _, _, _, _)
FixBoundIndices(pool, bounds, axis, index, to) ==
  IF index < to
    THEN LET id == bounds[index].proxyId
         IN FixBoundIndices(
              IF IsLower(bounds[index])
                THEN [pool EXCEPT ![id].lowerBounds[axis] = index]
                ELSE [pool EXCEPT ![id].upperBounds[axis] = index],
              bounds, axis, index + 1, to)
    ELSE pool

\* the buffered calls for the query results, in order: fn(S, proxyId, m_queryResults[i])
RECURSIVE BufferResults(_, _, _, _)
BufferResults(S, proxyId, i, add) ==
  IF i < S.queryResultCount
    THEN BufferResults(IF add THEN AddBufferedPair(S, proxyId, S.queryResults[i])
                              ELSE RemoveBufferedPair(S, proxyId, S.queryResults[i]),
                       proxyId, i + 1, add)
    ELSE S

(***************************************************************************)
(* CreateProxy.                                                            *)
(***************************************************************************)
\* memmove(bounds + upperIndex + 2, bounds + upperIndex, boundCount - upperIndex):
\* the array now has boundCount + 2 entries in use
OpenUpper(bounds, boundCount, upperIndex) ==
  [k \in 0 .. (boundCount + 1) |->
     IF k >= upperIndex + 2 THEN bounds[k - 2]
     ELSE IF k < boundCount THEN bounds[k] ELSE NewBound]

\* memmove(bounds + lowerIndex + 1, bounds + lowerIndex, upperIndex - lowerIndex)
OpenLower(bounds, boundCount, lowerIndex, upperIndex) ==
  [k \in 0 .. (boundCount + 1) |->
     IF k >= lowerIndex + 1 /\ k < upperIndex + 1 THEN bounds[k - 1] ELSE bounds[k]]

\* "Copy in the new bounds"
CopyIn(bounds, lowerIndex, upperIndex, lowerValue, upperValue, proxyId) ==
  [bounds EXCEPT ![lowerIndex].value = lowerValue,
                 ![lowerIndex].proxyId = proxyId,
                 ![upperIndex].value = upperValue,
                 ![upperIndex].proxyId = proxyId]

\* the stabbing count of the new lower bound
SetLowerStabbing(bounds, lowerIndex) ==
  [bounds EXCEPT ![lowerIndex].stabbingCount =
                     IF lowerIndex = 0 THEN 0 ELSE bounds[lowerIndex - 1].stabbingCount]

\* the new upper bound with one more than the stabbing count below it
SetUpperStabbing_PlusOne(bounds, upperIndex) ==
  [bounds EXCEPT ![upperIndex].stabbingCount = bounds[upperIndex - 1].stabbingCount + 1]

\* the stabbing count of the new upper bound
SetUpperStabbing(bounds, upperIndex) ==
  [bounds EXCEPT ![upperIndex].stabbingCount = bounds[upperIndex - 1].stabbingCount]

\* the stabbing counts at [from, to) changed by d
AdjustStabbing(bounds, from, to, d) ==
  [k \in DOMAIN bounds |->
     IF k >= from /\ k < to THEN [bounds[k] EXCEPT !.stabbingCount = @ + d] ELSE bounds[k]]

\* the bound array of an axis after the insertion of a proxy's bounds at lowerIndex and,
\* once the lower bound is in, at upperIndex + 1
InsertBounds(bounds, boundCount, lowerIndex, upperIndex, lowerValue, upperValue, proxyId) ==
  AdjustStabbing(
    SetUpperStabbing(
      SetLowerStabbing(
        CopyIn(OpenLower(OpenUpper(bounds, boundCount, upperIndex),
                         boundCount, lowerIndex, upperIndex),
               lowerIndex, upperIndex + 1, lowerValue, upperValue, proxyId),
        lowerIndex),
      upperIndex + 1),
    lowerIndex, upperIndex + 1, 1)

\* the array of an axis replaced, and the bound indices of the entries in [from, to)
\* written back to their proxies
StoreBounds(S, axis, bounds, from, to) ==
  [S EXCEPT !.bounds[axis] = bounds,
            !.pool = FixBoundIndices(S.pool, bounds, axis, from, to)]

\* the insertion at the indices a Query found
InsertAt(q, proxyId, lowerValue, upperValue, boundCount, axis) ==
  StoreBounds(q.S, axis,
              InsertBounds(q.S.bounds[axis], boundCount, q.lowerQuery, q.upperQuery,
                           lowerValue, upperValue, proxyId),
              q.lowerQuery, boundCount + 2)

\* one iteration of the axis loop of CreateProxy
CreateAxis(S, proxyId, lowerValue, upperValue, boundCount, axis) ==
  InsertAt(Query(S, lowerValue, upperValue, S.bounds[axis], boundCount, axis),
           proxyId, lowerValue, upperValue, boundCount, axis)

\* proxyPool[proxyId] is undefined: the constructor fills the slots 0 .. b2_maxProxies - 1
\* only, and calling a method of undefined throws a TypeError
NoSlot(proxyId) == proxyId \notin ProxyIds

\* bounds[index] is undefined: an axis array has 2 * b2_maxProxies entries, and reading
\* a field of undefined throws a TypeError
NoBound(index) == index < 0 \/ index >= 2 * b2_maxProxies

\* the call stops with a TypeError
Throw(S) == [S EXCEPT !.fault = TRUE]

\* CreateProxy with a slot in hand
CreateProxyAt(S, aabb, userData) ==
  LET proxyId == S.freeProxy
      \* the free-list link is in use only while the proxy is free
      S0 == [S EXCEPT !.freeProxy = S.pool[proxyId].next,
                      !.pool[proxyId].next = b2_nullProxy,
                      !.pool[proxyId].overlapCount = 0,
                      !.pool[proxyId].userData = userData,
                      !.calls = << >>]
      boundCount == 2 * S.proxyCount
      v == ComputeBounds(aabb)
      S1 == CreateAxis(S0, proxyId, v.lowerValues[0], v.upperValues[0], boundCount, 0)
      S2 == CreateAxis(S1, proxyId, v.lowerValues[1], v.upperValues[1], boundCount, 1)
      S3 == [S2 EXCEPT !.proxyCount = @ + 1]
      S4 == BufferResults(S3, proxyId, 0, TRUE)
      S5 == PairManagerCommit(S4)
      S6 == ResetQueryResults(S5)
  IN IncrementTimeStamp(S6)

\* proxy = proxyPool[m_freeProxy]; proxy.GetNext() throws when the free list is empty
CreateProxy(S, aabb, userData) ==
  IF NoSlot(S.freeProxy) THEN Throw([S EXCEPT !.calls = << >>])
  ELSE CreateProxyAt(S, aabb, userData)

(***************************************************************************)
(* DestroyProxy.                                                           *)
(***************************************************************************)
\* memmove(bounds + lowerIndex, bounds + lowerIndex + 1, upperIndex - lowerIndex - 1)
CloseLower(bounds, boundCount, lowerIndex, upperIndex) ==
  [k \in 0 .. (boundCount - 1) |->
     IF k >= lowerIndex /\ k < upperIndex - 1 THEN bounds[k + 1] ELSE bounds[k]]

\* memmove(bounds + upperIndex - 1, bounds + upperIndex + 1, boundCount - upperIndex - 1):
\* the array now has boundCount - 2 entries in use
CloseUpper(bounds, boundCount, upperIndex) ==
  [k \in 0 .. (boundCount - 3) |->
     IF k >= upperIndex - 1 THEN bounds[k + 2] ELSE bounds[k]]

\* RemoveBounds without "fix stabbing count"
RemoveBounds_NoStabbingFix(bounds, boundCount, lowerIndex, upperIndex) ==
  CloseUpper(CloseLower(bounds, boundCount, lowerIndex, upperIndex), boundCount, upperIndex)

\* the bound array of an axis after the removal of the bounds at lowerIndex and upperIndex
RemoveBounds(bounds, boundCount, lowerIndex, upperIndex) ==
  AdjustStabbing(
    CloseUpper(CloseLower(bounds, boundCount, lowerIndex, upperIndex), boundCount, upperIndex),
    lowerIndex, upperIndex - 1, -1)

\* "Query for pairs to be removed"
QueryRemoved(S, lowerValue, upperValue, boundCount, axis) ==
  Query(S, lowerValue, upperValue, S.bounds[axis], boundCount, axis).S

\* one iteration of the axis loop of DestroyProxy
DestroyAxis(S, proxyId, boundCount, axis) ==
  LET lowerIndex == S.pool[proxyId].lowerBounds[axis]
      upperIndex == S.pool[proxyId].upperBounds[axis]
      lowerValue == S.bounds[axis][lowerIndex].value
      upperValue == S.bounds[axis][upperIndex].value
  IN QueryRemoved(
       StoreBounds(S, axis, RemoveBounds(S.bounds[axis], boundCount, lowerIndex, upperIndex),
                   lowerIndex, boundCount - 2),
       lowerValue, upperValue, boundCount - 2, axis)

\* DestroyProxy that leaves m_freeProxy and the proxy's next as they are
DestroyProxy_NoRelease(S, proxyId) ==
  LET boundCount == 2 * S.proxyCount
      S0 == [S EXCEPT !.calls = << >>]
      S1 == DestroyAxis(S0, proxyId, boundCount, 0)
      S2 == DestroyAxis(S1, proxyId, boundCount, 1)
      S3 == BufferResults(S2, proxyId, 0, FALSE)
      S4 == PairManagerCommit(S3)
      S5 == IncrementTimeStamp(ResetQueryResults(S4))
  IN \* return the proxy to the pool
     [S5 EXCEPT !.pool[proxyId].userData = "null",
                !.pool[proxyId].overlapCount = b2_invalid,
                !.pool[proxyId].lowerBounds = [a \in Axes |-> b2_invalid],
                !.pool[proxyId].upperBounds = [a \in Axes |-> b2_invalid],
                !.proxyCount = @ - 1]

\* DestroyProxy that marks the proxy invalid before it buffers the removes
DestroyProxyAt_InvalidFirst(S, proxyId) ==
  LET boundCount == 2 * S.proxyCount
      S0 == [S EXCEPT !.calls = << >>, !.pool[proxyId].overlapCount = b2_invalid]
      S1 == DestroyAxis(S0, proxyId, boundCount, 0)
      S2 == DestroyAxis(S1, proxyId, boundCount, 1)
      S3 == BufferResults(S2, proxyId, 0, FALSE)
      S4 == PairManagerCommit(S3)
      S5 == IncrementTimeStamp(ResetQueryResults(S4))
  IN [S5 EXCEPT !.pool[proxyId].userData = "null",
                !.pool[proxyId].overlapCount = b2_invalid,
                !.pool[proxyId].lowerBounds = [a \in Axes |-> b2_invalid],
                !.pool[proxyId].upperBounds = [a \in Axes |-> b2_invalid],
                !.pool[proxyId].next = S.freeProxy,
                !.freeProxy = proxyId,
                !.proxyCount = @ - 1]

\* DestroyProxy of a proxy whose bound indices on axis 0 are indices of the array
DestroyProxyAt(S, proxyId) ==
  LET boundCount == 2 * S.proxyCount
      S0 == [S EXCEPT !.calls = << >>]
      S1 == DestroyAxis(S0, proxyId, boundCount, 0)
      S2 == DestroyAxis(S1, proxyId, boundCount, 1)
      S3 == BufferResults(S2, proxyId, 0, FALSE)
      S4 == PairManagerCommit(S3)
      S5 == IncrementTimeStamp(ResetQueryResults(S4))
  IN \* return the proxy to the pool
     [S5 EXCEPT !.pool[proxyId].userData = "null",
                !.pool[proxyId].overlapCount = b2_invalid,
                !.pool[proxyId].lowerBounds = [a \in Axes |-> b2_invalid],
                !.pool[proxyId].upperBounds = [a \in Axes |-> b2_invalid],
                !.pool[proxyId].next = S.freeProxy,
                !.freeProxy = proxyId,
                !.proxyCount = @ - 1]

\* DestroyProxy without proxy.SetNext(m_freeProxy)
DestroyProxy_NoRelink(S, proxyId) ==
  [DestroyProxyAt(S, proxyId) EXCEPT !.pool[proxyId].next = S.pool[proxyId].next]

\* proxy = proxyPool[proxyId]; on axis 0, before anything is written, the code reads
\* bounds[proxy.lowerBounds[0]].value and bounds[proxy.upperBounds[0]].value
DestroyProxy(S, proxyId) ==
  IF NoSlot(proxyId) THEN Throw([S EXCEPT !.calls = << >>])
  ELSE IF NoBound(S.pool[proxyId].lowerBounds[0]) \/ NoBound(S.pool[proxyId].upperBounds[0])
    THEN Throw([S EXCEPT !.calls = << >>])
  ELSE DestroyProxyAt(S, proxyId)

(***************************************************************************)
(* QueryAABB.                                                              *)
(***************************************************************************)
\* the loop that copies userData out: the caller's array after the loop
RECURSIVE QueryCopy(_, _, _, _)
QueryCopy(S, maxCount, i, userData) ==
  IF i < S.queryResultCount /\ i < maxCount
    THEN QueryCopy(S, maxCount, i + 1, Append(userData, S.pool[S.queryResults[i]].userData))
    ELSE userData

\* one iteration of the axis loop of QueryAABB
QueryAxis(S, v, axis) ==
  Query(S, v.lowerValues[axis], v.upperValues[axis], S.bounds[axis], 2 * S.proxyCount, axis).S

\* what a call hands back: the state after it, the returned count and the caller's array
Answer(S, userData) == [S |-> S, count |-> Len(userData), userData |-> userData]

\* QueryAABB without the reset of the query results at line 289
QueryFinish_NoReset(S, maxCount) ==
  Answer(IncrementTimeStamp(S), QueryCopy(S, maxCount, 0, << >>))

\* the copy loop and the end of the query
QueryFinish(S, maxCount) ==
  Answer(IncrementTimeStamp(ResetQueryResults(S)), QueryCopy(S, maxCount, 0, << >>))

QueryAABB(S, aabb, maxCount) ==
  QueryFinish(
    QueryAxis(QueryAxis([S EXCEPT !.calls = << >>], ComputeBounds(aabb), 0),
              ComputeBounds(aabb), 1),
    maxCount)

(***************************************************************************)
(* MoveProxy.                                                              *)
(***************************************************************************)
\* the current stored bound values of a proxy
StoredValues(S, proxyId) ==
  [lowerValues |-> [a \in Axes |-> S.bounds[a][S.pool[proxyId].lowerBounds[a]].value],
   upperValues |-> [a \in Axes |-> S.bounds[a][S.pool[proxyId].upperBounds[a]].value]]

TestOverlap(S, b, p) ==
  \A axis \in Axes :
    /\ ~(b.lowerValues[axis] > S.bounds[axis][p.upperBounds[axis]].value)
    /\ ~(b.upperValues[axis] < S.bounds[axis][p.lowerBounds[axis]].value)

\* bound.Swap(other): the two array entries exchange their contents
SwapBounds(bounds, i, j) == [bounds EXCEPT ![i] = bounds[j], ![j] = bounds[i]]

\* "Should we move the lower bound down?"
RECURSIVE MoveLowerDown(_, _, _, _, _, _)
MoveLowerDown(S, proxyId, axis, newValues, lowerValue, index) ==
  LET bounds == S.bounds[axis]
  IN IF index > 0 /\ lowerValue < bounds[index - 1].value
       THEN LET prevBound == bounds[index - 1]
                prevProxyId == prevBound.proxyId
                isUpper == IsUpper(prevBound)
                S1 == IF isUpper /\ TestOverlap(S, newValues, S.pool[prevProxyId])
                        THEN AddBufferedPair(S, proxyId, prevProxyId) ELSE S
                b1 == [bounds EXCEPT
                         ![index - 1].stabbingCount = @ + 1,
                         ![index].stabbingCount = IF isUpper THEN @ + 1 ELSE @ - 1]
                pool1 == IF isUpper
                           THEN [S1.pool EXCEPT ![prevProxyId].upperBounds[axis] = @ + 1]
                           ELSE [S1.pool EXCEPT ![prevProxyId].lowerBounds[axis] = @ + 1]
                pool2 == [pool1 EXCEPT ![proxyId].lowerBounds[axis] = @ - 1]
            IN MoveLowerDown([S1 EXCEPT !.bounds[axis] = SwapBounds(b1, index, index - 1),
                                        !.pool = pool2],
                             proxyId, axis, newValues, lowerValue, index - 1)
       ELSE S

\* MoveUpperUp buffering an add at every lower bound crossed
RECURSIVE MoveUpperUp_NoTest(_, _, _, _, _, _, _)
MoveUpperUp_NoTest(S, proxyId, axis, newValues, upperValue, boundCount, index) ==
  LET bounds == S.bounds[axis]
  IN IF index < boundCount - 1 /\ bounds[index + 1].value <= upperValue
       THEN LET nextBound == bounds[index + 1]
                nextProxyId == nextBound.proxyId
                isLower == IsLower(nextBound)
                S1 == IF isLower
                        THEN AddBufferedPair(S, proxyId, nextProxyId) ELSE S
                b1 == [bounds EXCEPT
                         ![index + 1].stabbingCount = @ + 1,
                         ![index].stabbingCount = IF isLower THEN @ + 1 ELSE @ - 1]
                pool1 == IF isLower
                           THEN [S1.pool EXCEPT ![nextProxyId].lowerBounds[axis] = @ - 1]
                           ELSE [S1.pool EXCEPT ![nextProxyId].upperBounds[axis] = @ - 1]
                pool2 == [pool1 EXCEPT ![proxyId].upperBounds[axis] = @ + 1]
            IN MoveUpperUp_NoTest([S1 EXCEPT !.bounds[axis] = SwapBounds(b1, index, index + 1),
                                      !.pool = pool2],
                           proxyId, axis, newValues, upperValue, boundCount, index + 1)
       ELSE S

\* "Should we move the upper bound up?"
RECURSIVE MoveUpperUp(_, _, _, _, _, _, _)
MoveUpperUp(S, proxyId, axis, newValues, upperValue, boundCount, index) ==
  LET bounds == S.bounds[axis]
  IN IF index < boundCount - 1 /\ bounds[index + 1].value <= upperValue
       THEN LET nextBound == bounds[index + 1]
                nextProxyId == nextBound.proxyId
                isLower == IsLower(nextBound)
                S1 == IF isLower /\ TestOverlap(S, newValues, S.pool[nextProxyId])
                        THEN AddBufferedPair(S, proxyId, nextProxyId) ELSE S
                b1 == [bounds EXCEPT
                         ![index + 1].stabbingCount = @ + 1,
                         ![index].stabbingCount = IF isLower THEN @ + 1 ELSE @ - 1]
                pool1 == IF isLower
                           THEN [S1.pool EXCEPT ![nextProxyId].lowerBounds[axis] = @ - 1]
                           ELSE [S1.pool EXCEPT ![nextProxyId].upperBounds[axis] = @ - 1]
                pool2 == [pool1 EXCEPT ![proxyId].upperBounds[axis] = @ + 1]
            IN MoveUpperUp([S1 EXCEPT !.bounds[axis] = SwapBounds(b1, index, index + 1),
                                      !.pool = pool2],
                           proxyId, axis, newValues, upperValue, boundCount, index + 1)
       ELSE S

\* MoveLowerUp testing the lost overlap with the new values of the proxy
RECURSIVE MoveLowerUp_NewValues(_, _, _, _, _, _, _)
MoveLowerUp_NewValues(S, proxyId, axis, oldValues, lowerValue, boundCount, index) ==
  LET bounds == S.bounds[axis]
  IN IF index < boundCount - 1 /\ bounds[index + 1].value <= lowerValue
       THEN LET nextBound == bounds[index + 1]
                nextProxyId == nextBound.proxyId
                isUpper == IsUpper(nextBound)
                S1 == IF isUpper /\ TestOverlap(S, StoredValues(S, proxyId), S.pool[nextProxyId])
                        THEN RemoveBufferedPair(S, proxyId, nextProxyId) ELSE S
                b1 == [bounds EXCEPT
                         ![index + 1].stabbingCount = @ - 1,
                         ![index].stabbingCount = IF isUpper THEN @ - 1 ELSE @ + 1]
                pool1 == IF isUpper
                           THEN [S1.pool EXCEPT ![nextProxyId].upperBounds[axis] = @ - 1]
                           ELSE [S1.pool EXCEPT ![nextProxyId].lowerBounds[axis] = @ - 1]
                pool2 == [pool1 EXCEPT ![proxyId].lowerBounds[axis] = @ + 1]
            IN MoveLowerUp_NewValues([S1 EXCEPT !.bounds[axis] = SwapBounds(b1, index, index + 1),
                                      !.pool = pool2],
                           proxyId, axis, oldValues, lowerValue, boundCount, index + 1)
       ELSE S

\* "Should we move the lower bound up?"
RECURSIVE MoveLowerUp(_, _, _, _, _, _, _)
MoveLowerUp(S, proxyId, axis, oldValues, lowerValue, boundCount, index) ==
  LET bounds == S.bounds[axis]
  IN IF index < boundCount - 1 /\ bounds[index + 1].value <= lowerValue
       THEN LET nextBound == bounds[index + 1]
                nextProxyId == nextBound.proxyId
                isUpper == IsUpper(nextBound)
                S1 == IF isUpper /\ TestOverlap(S, oldValues, S.pool[nextProxyId])
                        THEN RemoveBufferedPair(S, proxyId, nextProxyId) ELSE S
                b1 == [bounds EXCEPT
                         ![index + 1].stabbingCount = @ - 1,
                         ![index].stabbingCount = IF isUpper THEN @ - 1 ELSE @ + 1]
                pool1 == IF isUpper
                           THEN [S1.pool EXCEPT ![nextProxyId].upperBounds[axis] = @ - 1]
                           ELSE [S1.pool EXCEPT ![nextProxyId].lowerBounds[axis] = @ - 1]
                pool2 == [pool1 EXCEPT ![proxyId].lowerBounds[axis] = @ + 1]
            IN MoveLowerUp([S1 EXCEPT !.bounds[axis] = SwapBounds(b1, index, index + 1),
                                      !.pool = pool2],
                           proxyId, axis, oldValues, lowerValue, boundCount, index + 1)
       ELSE S

\* MoveUpperDown testing the lost overlap with the new values of the proxy
RECURSIVE MoveUpperDown_NewValues(_, _, _, _, _, _)
MoveUpperDown_NewValues(S, proxyId, axis, oldValues, upperValue, index) ==
  LET bounds == S.bounds[axis]
  IN IF index > 0 /\ upperValue < bounds[index - 1].value
       THEN LET prevBound == bounds[index - 1]
                prevProxyId == prevBound.proxyId
                isLower == IsLower(prevBound)
                S1 == IF isLower /\ TestOverlap(S, StoredValues(S, proxyId), S.pool[prevProxyId])
                        THEN RemoveBufferedPair(S, proxyId, prevProxyId) ELSE S
                b1 == [bounds EXCEPT
                         ![index - 1].stabbingCount = @ - 1,
                         ![index].stabbingCount = IF isLower THEN @ - 1 ELSE @ + 1]
                pool1 == IF isLower
                           THEN [S1.pool EXCEPT ![prevProxyId].lowerBounds[axis] = @ + 1]
                           ELSE [S1.pool EXCEPT ![prevProxyId].upperBounds[axis] = @ + 1]
                pool2 == [pool1 EXCEPT ![proxyId].upperBounds[axis] = @ - 1]
            IN MoveUpperDown_NewValues([S1 EXCEPT !.bounds[axis] = SwapBounds(b1, index, index - 1),
                                        !.pool = pool2],
                             proxyId, axis, oldValues, upperValue, index - 1)
       ELSE S

\* "Should we move the upper bound down?"
RECURSIVE MoveUpperDown(_, _, _, _, _, _)
MoveUpperDown(S, proxyId, axis, oldValues, upperValue, index) ==
  LET bounds == S.bounds[axis]
  IN IF index > 0 /\ upperValue < bounds[index - 1].value
       THEN LET prevBound == bounds[index - 1]
                prevProxyId == prevBound.proxyId
                isLower == IsLower(prevBound)
                S1 == IF isLower /\ TestOverlap(S, oldValues, S.pool[prevProxyId])
                        THEN RemoveBufferedPair(S, proxyId, prevProxyId) ELSE S
                b1 == [bounds EXCEPT
                         ![index - 1].stabbingCount = @ - 1,
                         ![index].stabbingCount = IF isLower THEN @ - 1 ELSE @ + 1]
                pool1 == IF isLower
                           THEN [S1.pool EXCEPT ![prevProxyId].lowerBounds[axis] = @ + 1]
                           ELSE [S1.pool EXCEPT ![prevProxyId].upperBounds[axis] = @ + 1]
                pool2 == [pool1 EXCEPT ![proxyId].upperBounds[axis] = @ - 1]
            IN MoveUpperDown([S1 EXCEPT !.bounds[axis] = SwapBounds(b1, index, index - 1),
                                        !.pool = pool2],
                             proxyId, axis, oldValues, upperValue, index - 1)
       ELSE S

\* MoveAxis without the case "move the upper bound down"
MoveAxis_NoUpperDown(S, proxyId, newValues, oldValues, boundCount, axis) ==
  LET lowerIndex == S.pool[proxyId].lowerBounds[axis]
      upperIndex == S.pool[proxyId].upperBounds[axis]
      lowerValue == newValues.lowerValues[axis]
      upperValue == newValues.upperValues[axis]
      deltaLower == lowerValue - S.bounds[axis][lowerIndex].value
      deltaUpper == upperValue - S.bounds[axis][upperIndex].value
      S0 == [S EXCEPT !.bounds[axis][lowerIndex].value = lowerValue,
                      !.bounds[axis][upperIndex].value = upperValue]
      S1 == IF deltaLower < 0
              THEN MoveLowerDown(S0, proxyId, axis, newValues, lowerValue, lowerIndex) ELSE S0
      S2 == IF deltaUpper > 0
              THEN MoveUpperUp(S1, proxyId, axis, newValues, upperValue, boundCount, upperIndex)
              ELSE S1
      S3 == IF deltaLower > 0
              THEN MoveLowerUp(S2, proxyId, axis, oldValues, lowerValue, boundCount, lowerIndex)
              ELSE S2
      S4 == S3
  IN S4

\* one iteration of the axis loop of MoveProxy
MoveAxis(S, proxyId, newValues, oldValues, boundCount, axis) ==
  LET lowerIndex == S.pool[proxyId].lowerBounds[axis]
      upperIndex == S.pool[proxyId].upperBounds[axis]
      lowerValue == newValues.lowerValues[axis]
      upperValue == newValues.upperValues[axis]
      deltaLower == lowerValue - S.bounds[axis][lowerIndex].value
      deltaUpper == upperValue - S.bounds[axis][upperIndex].value
      S0 == [S EXCEPT !.bounds[axis][lowerIndex].value = lowerValue,
                      !.bounds[axis][upperIndex].value = upperValue]
      S1 == IF deltaLower < 0
              THEN MoveLowerDown(S0, proxyId, axis, newValues, lowerValue, lowerIndex) ELSE S0
      S2 == IF deltaUpper > 0
              THEN MoveUpperUp(S1, proxyId, axis, newValues, upperValue, boundCount, upperIndex)
              ELSE S1
      S3 == IF deltaLower > 0
              THEN MoveLowerUp(S2, proxyId, axis, oldValues, lowerValue, boundCount, lowerIndex)
              ELSE S2
      S4 == IF deltaUpper < 0
              THEN MoveUpperDown(S3, proxyId, axis, oldValues, upperValue, upperIndex) ELSE S3
  IN S4

\* GetProxy: whether the call threw, and the pool slot whose entry it returned
\* (b2_nullProxy stands for the return of null)
GetProxy(S, proxyId) ==
  IF proxyId = b2_nullProxy THEN [fault |-> FALSE, slot |-> b2_nullProxy]
  ELSE IF NoSlot(proxyId) THEN [fault |-> TRUE, slot |-> b2_nullProxy]
  ELSE IF ~ProxyIsValid(S.pool[proxyId]) THEN [fault |-> FALSE, slot |-> b2_nullProxy]
  ELSE [fault |-> FALSE, slot |-> proxyId]

\* the old bound values of MoveProxy cannot be read: some bounds[index] is undefined
NoOldValues(S, proxyId) ==
  \E axis \in Axes : \/ NoBound(S.pool[proxyId].lowerBounds[axis])
                     \/ NoBound(S.pool[proxyId].upperBounds[axis])

\* MoveProxy with an IncrementTimeStamp before it returns
MoveProxy_Stamps(S, proxyId, aabb) ==
  IncrementTimeStamp(
    LET S0 == [S EXCEPT !.calls = << >>]
    IN IF proxyId = b2_nullProxy \/ b2_maxProxies <= proxyId THEN S0
       ELSE IF ~IsValid(aabb) THEN S0
       ELSE IF NoOldValues(S, proxyId) THEN Throw(S0)
       ELSE LET boundCount == 2 * S.proxyCount
                newValues == ComputeBounds(aabb)
                oldValues == StoredValues(S0, proxyId)
                S1 == MoveAxis(S0, proxyId, newValues, oldValues, boundCount, 0)
            IN MoveAxis(S1, proxyId, newValues, oldValues, boundCount, 1))

\* MoveProxy with a Commit of the pair manager before it returns
MoveProxy_Commits(S, proxyId, aabb) ==
  PairManagerCommit(
    LET S0 == [S EXCEPT !.calls = << >>]
    IN IF proxyId = b2_nullProxy \/ b2_maxProxies <= proxyId THEN S0
       ELSE IF ~IsValid(aabb) THEN S0
       ELSE IF NoOldValues(S, proxyId) THEN Throw(S0)
       ELSE LET boundCount == 2 * S.proxyCount
                newValues == ComputeBounds(aabb)
                oldValues == StoredValues(S0, proxyId)
                S1 == MoveAxis(S0, proxyId, newValues, oldValues, boundCount, 0)
            IN MoveAxis(S1, proxyId, newValues, oldValues, boundCount, 1))

\* MoveProxy without the test of the box at lines 475-478
MoveProxy_NoValidTest(S, proxyId, aabb) ==
  LET S0 == [S EXCEPT !.calls = << >>]
  IN IF proxyId = b2_nullProxy \/ b2_maxProxies <= proxyId THEN S0
     ELSE IF NoOldValues(S, proxyId) THEN Throw(S0)
     ELSE LET boundCount == 2 * S.proxyCount
              newValues == ComputeBounds(aabb)
              oldValues == StoredValues(S0, proxyId)
              S1 == MoveAxis(S0, proxyId, newValues, oldValues, boundCount, 0)
          IN MoveAxis(S1, proxyId, newValues, oldValues, boundCount, 1)

MoveProxy(S, proxyId, aabb) ==
  LET S0 == [S EXCEPT !.calls = << >>]
  IN IF proxyId = b2_nullProxy \/ b2_maxProxies <= proxyId THEN S0
     ELSE IF ~IsValid(aabb) THEN S0
     ELSE IF NoOldValues(S, proxyId) THEN Throw(S0)
     ELSE LET boundCount == 2 * S.proxyCount
              newValues == ComputeBounds(aabb)
              oldValues == StoredValues(S0, proxyId)
              S1 == MoveAxis(S0, proxyId, newValues, oldValues, boundCount, 0)
          IN MoveAxis(S1, proxyId, newValues, oldValues, boundCount, 1)

(***************************************************************************)
(* State.                                                                  *)
(***************************************************************************)
VARIABLES
  m_proxyCount,        \* number of live proxies
  m_freeProxy,         \* head of the free list
  proxyPool,           \* the pool of proxies
  m_bounds,            \* m_bounds[axis][index], the 2 * m_proxyCount entries in use
  m_queryResults,      \* the m_queryResultCount entries in use
  m_queryResultCount,
  m_timeStamp,         \* generation counter
  bufferedAdds,        \* pair manager: pairs with a pending add
  bufferedRemoves,     \* pair manager: pairs with a pending remove
  pairs,               \* pair manager: the committed overlap set
  fault,               \* an operation threw
  last                 \* the last public call: the calls it made and what it returned

vars == <<m_proxyCount, m_freeProxy, proxyPool, m_bounds, m_queryResults, m_queryResultCount,
          m_timeStamp, bufferedAdds, bufferedRemoves, pairs, fault, last>>

\* the broad phase object as one record
Self ==
  [proxyCount |-> m_proxyCount, freeProxy |-> m_freeProxy, pool |-> proxyPool,
   bounds |-> m_bounds, queryResults |-> m_queryResults,
   queryResultCount |-> m_queryResultCount, timeStamp |-> m_timeStamp,
   bufferedAdds |-> bufferedAdds, bufferedRemoves |-> bufferedRemoves, pairs |-> pairs,
   fault |-> fault, calls |-> << >>]

\* the record of a public call: its name, the pair-manager calls it made, and for
\* QueryAABB the count returned and the array filled
Last(op, calls, count, userData) ==
  [op |-> op, calls |-> calls, count |-> count, userData |-> userData]

\* the public call op has left the object S and handed back count and userData
Store(S, op, count, userData) ==
  /\ m_proxyCount' = S.proxyCount
  /\ m_freeProxy' = S.freeProxy
  /\ proxyPool' = S.pool
  /\ m_bounds' = S.bounds
  /\ m_queryResults' = S.queryResults
  /\ m_queryResultCount' = S.queryResultCount
  /\ m_timeStamp' = S.timeStamp
  /\ bufferedAdds' = S.bufferedAdds
  /\ bufferedRemoves' = S.bufferedRemoves
  /\ pairs' = S.pairs
  /\ fault' = S.fault
  /\ last' = Last(op, S.calls, count, userData)

\* the object the constructor leaves
Constructed ==
  [proxyCount |-> 0, freeProxy |-> 0,
   pool |-> [i \in ProxyIds |->
               NewProxy(IF i = b2_maxProxies - 1 THEN b2_nullProxy ELSE i + 1)],
   bounds |-> [a \in Axes |-> << >>], queryResults |-> << >>, queryResultCount |-> 0,
   timeStamp |-> 1, bufferedAdds |-> {}, bufferedRemoves |-> {}, pairs |-> {},
   fault |-> FALSE, calls |-> << >>]

\* the state is the object S, left by the public call op
Holds(S, op) ==
  /\ m_proxyCount = S.proxyCount
  /\ m_freeProxy = S.freeProxy
  /\ proxyPool = S.pool
  /\ m_bounds = S.bounds
  /\ m_queryResults = S.queryResults
  /\ m_queryResultCount = S.queryResultCount
  /\ m_timeStamp = S.timeStamp
  /\ bufferedAdds = S.bufferedAdds
  /\ bufferedRemoves = S.bufferedRemoves
  /\ pairs = S.pairs
  /\ fault = S.fault
  /\ last = Last(op, S.calls, 0, << >>)

\* the state the constructor leaves
Init == Holds(Constructed, "new")

\* the extents callers pass on an axis: the unit intervals at even coordinates, and the
\* whole range
Units == {<<lo, lo + 1>> : lo \in {c \in 0 .. (MaxCoord - 1) : c % 2 = 0}}
Whole == <<0, MaxCoord>>
FirstUnit == <<0, 1>>
LastUnit == CHOOSE u \in Units : \A v \in Units : v[1] <= u[1]
Box(ex, ey) == AABB(ex[1], ey[1], ex[2], ey[2])
\* the boxes callers pass: the squares on the diagonal, and the boxes with the first unit
\* on one axis and the last unit or the whole range on the other
AABBs ==
  {Box(e, e) : e \in Units \cup {Whole}}
    \cup {Box(FirstUnit, e) : e \in {LastUnit, Whole}}
    \cup {Box(e, FirstUnit) : e \in {LastUnit, Whole}}
\* the boxes callers query: the boxes above and the world's full extent
QueryAABBs == AABBs \cup {m_worldAABB}

\* what QueryAABB handed back, stored
StoreAnswer(r, op) == Store(r.S, op, r.count, r.userData)

\* one public call on the current state
CallCreateProxy ==
  /\ ~fault
  /\ m_freeProxy # b2_nullProxy
  /\ \E aabb \in AABBs, userData \in Shapes :
       Store(CreateProxy(Self, aabb, userData), "CreateProxy", 0, << >>)

CallDestroyProxy ==
  /\ ~fault
  /\ \E proxyId \in ProxyIds :
       /\ ProxyIsValid(proxyPool[proxyId])
       /\ Store(DestroyProxy(Self, proxyId), "DestroyProxy", 0, << >>)

CallMoveProxy ==
  /\ ~fault
  /\ \E proxyId \in ProxyIds, aabb \in AABBs :
       /\ ProxyIsValid(proxyPool[proxyId])
       /\ Store(MoveProxy(Self, proxyId, aabb), "MoveProxy", 0, << >>)

\* the Commit of the broad phase: the pair manager's Commit
CallCommit ==
  /\ ~fault
  /\ Store(PairManagerCommit(Self), "Commit", 0, << >>)

CallQueryAABB ==
  /\ ~fault
  /\ \E aabb \in QueryAABBs, maxCount \in 0 .. b2_maxProxies :
       StoreAnswer(QueryAABB(Self, aabb, maxCount), "QueryAABB")

(***************************************************************************)
(* Long runs: any sequence of public calls from the constructed object,    *)
(* with at most MaxLive proxies live between calls.                        *)
(***************************************************************************)
DoCreateProxy == m_timeStamp < MaxTimeStamp /\ m_proxyCount < MaxLive /\ CallCreateProxy
DoDestroyProxy == m_timeStamp < MaxTimeStamp /\ CallDestroyProxy
DoMoveProxy == CallMoveProxy
DoCommit == CallCommit
DoQueryAABB == m_timeStamp < MaxTimeStamp /\ CallQueryAABB

Next ==
  \/ DoCreateProxy
  \/ DoDestroyProxy
  \/ DoMoveProxy
  \/ DoCommit
  \/ DoQueryAABB

Spec == Init /\ [][Next]_vars

(***************************************************************************)
(* Populated scenes: the object after b2_maxProxies - 1 or b2_maxProxies   *)
(* CreateProxy calls on the constructed object, then one more public call  *)
(* (from the smaller scene, a CreateProxy and one call after it).          *)
(***************************************************************************)
\* the object after the CreateProxy calls for the boxes at 1 .. n of a sequence
RECURSIVE Populated(_, _)
Populated(boxes, n) ==
  IF n = 0 THEN Constructed
  ELSE CreateProxy(Populated(boxes, n - 1), boxes[n], CHOOSE userData \in Shapes : TRUE)

PopulatedCounts == {n \in 1 .. b2_maxProxies : n + 1 >= b2_maxProxies}

PopulatedInit ==
  \E n \in PopulatedCounts : \E boxes \in [1 .. n -> AABBs] :
    Holds(Populated(boxes, n), "CreateProxy")

\* no call has followed the CreateProxy calls
JustPopulated == last.op = "CreateProxy"

PopulatedCreateProxy == JustPopulated /\ CallCreateProxy
PopulatedDestroyProxy == JustPopulated /\ CallDestroyProxy
PopulatedMoveProxy == JustPopulated /\ CallMoveProxy
PopulatedCommit == JustPopulated /\ CallCommit
PopulatedQueryAABB == JustPopulated /\ CallQueryAABB

PopulatedNext ==
  \/ PopulatedCreateProxy
  \/ PopulatedDestroyProxy
  \/ PopulatedMoveProxy
  \/ PopulatedCommit
  \/ PopulatedQueryAABB

PopulatedSpec == PopulatedInit /\ [][PopulatedNext]_vars

(***************************************************************************)
(* Misuse: a populated scene, one public call or none, and then a call the *)
(* caller should not make: CreateProxy on an exhausted pool or with a      *)
(* degenerate box, DestroyProxy or MoveProxy of a slot that is not live,   *)
(* MoveProxy with an id or a box it turns down, GetProxy with any id.      *)
(***************************************************************************)
\* boxes with max <= min on some axis: no extent on x, and inverted on y
DegenerateAABBs == {Box(<<1, 1>>, FirstUnit), Box(FirstUnit, <<3, 2>>)}

\* ids that are not slots of the pool: the null proxy and the first id past the pool
NoSlotIds == {b2_nullProxy, b2_maxProxies}

\* the misuse follows the populating calls or a DestroyProxy
BeforeMisuse == ~fault /\ last.op \in {"CreateProxy", "DestroyProxy"}

MisuseCreateExhausted ==
  /\ BeforeMisuse
  /\ m_freeProxy = b2_nullProxy
  /\ \E aabb \in AABBs, userData \in Shapes :
       Store(CreateProxy(Self, aabb, userData), "CreateProxy(exhausted)", 0, << >>)

MisuseCreateDegenerate ==
  /\ BeforeMisuse
  /\ m_freeProxy # b2_nullProxy
  /\ \E aabb \in DegenerateAABBs, userData \in Shapes :
       Store(CreateProxy(Self, aabb, userData), "CreateProxy(degenerate)", 0, << >>)

MisuseDestroyStale ==
  /\ BeforeMisuse
  /\ \E proxyId \in ProxyIds :
       /\ ~ProxyIsValid(proxyPool[proxyId])
       /\ Store(DestroyProxy(Self, proxyId), "DestroyProxy(stale)", 0, << >>)

MisuseMoveStale ==
  /\ BeforeMisuse
  /\ \E proxyId \in ProxyIds, aabb \in AABBs :
       /\ ~ProxyIsValid(proxyPool[proxyId])
       /\ Store(MoveProxy(Self, proxyId, aabb), "MoveProxy(stale)", 0, << >>)

MisuseMoveRejected ==
  /\ BeforeMisuse
  /\ \E proxyId \in ProxyIds \cup NoSlotIds, aabb \in AABBs \cup DegenerateAABBs :
       /\ proxyId \in NoSlotIds \/ ~IsValid(aabb)
       /\ Store(MoveProxy(Self, proxyId, aabb), "MoveProxy(rejected)", 0, << >>)

\* GetProxy writes nothing; the slot it returned is kept as the count of the call
StoreGetProxy(r) == Store([Self EXCEPT !.fault = r.fault], "GetProxy", r.slot, << >>)

MisuseGetProxy ==
  /\ BeforeMisuse
  /\ \E proxyId \in ProxyIds \cup NoSlotIds : StoreGetProxy(GetProxy(Self, proxyId))

MisuseNext ==
  \/ PopulatedCreateProxy
  \/ PopulatedDestroyProxy
  \/ PopulatedMoveProxy
  \/ PopulatedCommit
  \/ PopulatedQueryAABB
  \/ MisuseCreateExhausted
  \/ MisuseCreateDegenerate
  \/ MisuseDestroyStale
  \/ MisuseMoveStale
  \/ MisuseMoveRejected
  \/ MisuseGetProxy

MisuseSpec == PopulatedInit /\ [][MisuseNext]_vars

(***************************************************************************)
(* Across the wrap of the time stamp: the constructed object after         *)
(* USHRT_MAX - WrapMargin - 1 calls of QueryAABB, each of which found      *)
(* nothing and moved the time stamp on by one, and then public calls up to *)
(* the time stamp WrapLimit after the wrap.                                *)
(***************************************************************************)
WrapMargin == 1
WrapLimit == 2

WrapInit == Holds([Constructed EXCEPT !.timeStamp = USHRT_MAX - WrapMargin], "QueryAABB")

\* calls that move the time stamp on are made before the wrap and up to WrapLimit after it
BeforeWrapLimit == m_timeStamp >= USHRT_MAX - WrapMargin \/ m_timeStamp < WrapLimit

WrapCreateProxy == BeforeWrapLimit /\ m_proxyCount < MaxLive /\ CallCreateProxy
WrapDestroyProxy == BeforeWrapLimit /\ CallDestroyProxy
WrapMoveProxy == CallMoveProxy
WrapCommit == CallCommit
WrapQueryAABB == BeforeWrapLimit /\ CallQueryAABB

WrapNext ==
  \/ WrapCreateProxy
  \/ WrapDestroyProxy
  \/ WrapMoveProxy
  \/ WrapCommit
  \/ WrapQueryAABB

WrapSpec == WrapInit /\ [][WrapNext]_vars

(***************************************************************************)
(* Boxes of any place and size: one proxy at a time, created, moved,       *)
(* queried and destroyed with boxes that reach beyond the world on either  *)
(* side or have no extent on an axis.  ComputeBounds is applied to the box *)
(* of every such call.                                                     *)
(***************************************************************************)
\* the coordinates of these boxes: one step beyond the world on either side
WideCoords == (0 - 1) .. (MaxCoord + 1)
\* the extents with max >= min
WideExtents == {e \in WideCoords \X WideCoords : e[1] <= e[2]}
\* every box with max >= min on both axes
WideAABBs == {Box(ex, ey) : ex \in WideExtents, ey \in WideExtents}
\* the boxes the calls are made with: any extent on both axes, or on one axis next to
\* the first unit on the other
CalledAABBs ==
  {Box(e, e) : e \in WideExtents}
    \cup {Box(FirstUnit, e) : e \in WideExtents}
    \cup {Box(e, FirstUnit) : e \in WideExtents}

WideCreateProxy ==
  /\ ~fault /\ m_timeStamp < MaxTimeStamp
  /\ m_proxyCount = 0
  /\ \E aabb \in CalledAABBs, userData \in Shapes :
       Store(CreateProxy(Self, aabb, userData), "CreateProxy", 0, << >>)

WideDestroyProxy == m_timeStamp < MaxTimeStamp /\ CallDestroyProxy

WideMoveProxy ==
  /\ ~fault
  /\ \E proxyId \in ProxyIds, aabb \in CalledAABBs :
       /\ ProxyIsValid(proxyPool[proxyId])
       /\ Store(MoveProxy(Self, proxyId, aabb), "MoveProxy", 0, << >>)

WideQueryAABB ==
  /\ ~fault /\ m_timeStamp < MaxTimeStamp
  /\ \E aabb \in CalledAABBs, maxCount \in 0 .. b2_maxProxies :
       StoreAnswer(QueryAABB(Self, aabb, maxCount), "QueryAABB")

WideNext ==
  \/ WideCreateProxy
  \/ WideDestroyProxy
  \/ WideMoveProxy
  \/ WideQueryAABB

WideSpec == Init /\ [][WideNext]_vars

(***************************************************************************)
(* What the properties below speak of.                                     *)
(***************************************************************************)
\* the live proxies of a broad phase
Live(S) == {i \in ProxyIds : ProxyIsValid(S.pool[i])}

\* two quantized boxes overlap on both axes
QOverlap(a, b) ==
  \A axis \in Axes :
    /\ a.lowerValues[axis] <= b.upperValues[axis]
    /\ b.lowerValues[axis] <= a.upperValues[axis]

\* the live proxies other than p whose quantized box overlaps the quantized box v
Overlapping(S, v, p) == {q \in Live(S) \ {p} : QOverlap(v, StoredValues(S, q))}

\* the second argument of every call of fn in a call log, and how often q is that argument
Partners(calls, fn) == {calls[i].b : i \in {j \in 1 .. Len(calls) : calls[j].fn = fn}}
Times(calls, fn, q) == Cardinality({j \in 1 .. Len(calls) : calls[j].fn = fn /\ calls[j].b = q})
\* every call of fn in the log has p as its first argument
AllFrom(calls, fn, p) == \A j \in 1 .. Len(calls) : calls[j].fn = fn => calls[j].a = p

\* some pair-manager call of fn is in the log of the last public call
LastCalled(fn) == \E j \in 1 .. Len(last.calls) : last.calls[j].fn = fn

\* two bounds of an axis carry the same value
SomeTie == \E axis \in Axes : \E i \in 1 .. (2 * m_proxyCount - 1) :
             m_bounds[axis][i - 1].value = m_bounds[axis][i].value

\* the broad phase with every pool slot's userData replaced by the slot's id
Tagged(S) == [S EXCEPT !.pool = [i \in ProxyIds |-> [S.pool[i] EXCEPT !.userData = i]]]

\* the free list from its head, as the ids visited
RECURSIVE FreeChainFrom(_, _, _)
FreeChainFrom(S, id, n) ==
  IF id = b2_nullProxy \/ n = 0 THEN << >>
  ELSE <<id>> \o FreeChainFrom(S, S.pool[id].next, n - 1)
FreeChain(S) == FreeChainFrom(S, S.freeProxy, b2_maxProxies + 1)

(***************************************************************************)
(* C1. After every CreateProxy, DestroyProxy, MoveProxy and Commit, on     *)
(* each axis the first 2 * proxyCount entries of the bound array are       *)
(* non-decreasing in value by index.                                       *)
(***************************************************************************)
C1_Sorted ==
  \A axis \in Axes :
    /\ DOMAIN m_bounds[axis] = 0 .. (2 * m_proxyCount - 1)
    /\ \A i \in 1 .. (2 * m_proxyCount - 1) :
         m_bounds[axis][i - 1].value <= m_bounds[axis][i].value

\* a MoveProxy that crossed another proxy's bound has run and left two equal values
C1_Witness == last.op = "MoveProxy" /\ m_proxyCount = 2 /\ last.calls # << >> /\ SomeTie

(***************************************************************************)
(* C2. For every axis and every index i < 2 * proxyCount the stored        *)
(* stabbingCount of bounds[i] is the number of lower bounds at indices     *)
(* <= i minus the number of upper bounds at indices <= i, as the linear    *)
(* scan of Validate recomputes it.                                         *)
(***************************************************************************)
ValidateCount(bounds, i) ==
  Cardinality({j \in 0 .. i : IsLower(bounds[j])}) - Cardinality({j \in 0 .. i : ~IsLower(bounds[j])})

C2_StabbingCount ==
  \A axis \in Axes : \A i \in 0 .. (2 * m_proxyCount - 1) :
    m_bounds[axis][i].stabbingCount = ValidateCount(m_bounds[axis], i)

\* two proxies are live, one inside the other's interval on some axis (a count of 2)
C2_Witness ==
  /\ m_proxyCount = 2
  /\ last.op \in {"CreateProxy", "DestroyProxy", "MoveProxy"}
  /\ \E axis \in Axes : \E i \in 0 .. 3 : m_bounds[axis][i].stabbingCount = 2

(***************************************************************************)
(* C3. With the pair manager a set updated by AddBufferedPair and          *)
(* RemoveBufferedPair, once Commit has run (nothing is buffered) an        *)
(* unordered pair {A,B} is in the set if and only if A and B are both live *)
(* and their current quantized boxes overlap on both axes.                 *)
(***************************************************************************)
OverlappingPairs(S) ==
  {{a, b} : <<a, b>> \in {t \in Live(S) \X Live(S) :
                           t[1] # t[2] /\ QOverlap(StoredValues(S, t[1]), StoredValues(S, t[2]))}}

C3_PairsAreOverlaps ==
  (bufferedAdds = {} /\ bufferedRemoves = {}) => pairs = OverlappingPairs(Self)

\* Commit has run on its own and the set holds a pair
C3_Witness == last.op = "Commit" /\ pairs # {} /\ m_proxyCount = 2

C6_CreateAdds ==
  m_freeProxy # b2_nullProxy =>
    \A aabb \in AABBs, userData \in Shapes :
      LET S1 == CreateProxy(Self, aabb, userData)
          expected == Overlapping(Self, ComputeBounds(aabb), b2_nullProxy)
      IN /\ ~S1.fault
         /\ AllFrom(S1.calls, "AddBufferedPair", m_freeProxy)
         /\ Partners(S1.calls, "AddBufferedPair") = expected
         /\ \A q \in expected : Times(S1.calls, "AddBufferedPair", q) = 1
         /\ Partners(S1.calls, "RemoveBufferedPair") = {}

\* a CreateProxy has run next to two live proxies, buffered an add for one of them and
\* none for the other, and two bounds tie
C6_Witness ==
  /\ last.op = "CreateProxy" /\ m_proxyCount = b2_maxProxies
  /\ Cardinality(Partners(last.calls, "AddBufferedPair")) = 1
  /\ SomeTie

(***************************************************************************)
(* C7. DestroyProxy(p) on a live proxy calls RemoveBufferedPair(p, q)      *)
(* exactly once for every other live proxy q whose quantized box           *)
(* overlapped p's on both axes immediately before the call, and for no     *)
(* other q.                                                                *)
(***************************************************************************)
C7_DestroyRemoves ==
  \A p \in Live(Self) :
    LET S1 == DestroyProxy(Self, p)
        expected == Overlapping(Self, StoredValues(Self, p), p)
    IN /\ ~S1.fault
       /\ AllFrom(S1.calls, "RemoveBufferedPair", p)
       /\ Partners(S1.calls, "RemoveBufferedPair") = expected
       /\ \A q \in expected : Times(S1.calls, "RemoveBufferedPair", q) = 1
       /\ Partners(S1.calls, "AddBufferedPair") = {}

\* a DestroyProxy has run next to two live proxies and buffered a remove for one of them
\* and none for the other
C7_Witness ==
  /\ last.op = "DestroyProxy" /\ m_proxyCount = b2_maxProxies - 1
  /\ Cardinality(Partners(last.calls, "RemoveBufferedPair")) = 1

(***************************************************************************)
(* C8. MoveProxy(p, newAabb) calls AddBufferedPair(p, q) for a live proxy  *)
(* q # p if and only if p's old quantized box did not overlap q's box on   *)
(* both axes and p's new quantized box does.                               *)
(***************************************************************************)
C8_MoveAdds ==
  \A p \in Live(Self), aabb \in AABBs :
    LET S1 == MoveProxy(Self, p, aabb)
        old == StoredValues(Self, p)
        new == ComputeBounds(aabb)
    IN /\ ~S1.fault
       /\ StoredValues(S1, p) = new
       /\ AllFrom(S1.calls, "AddBufferedPair", p)
       /\ Partners(S1.calls, "AddBufferedPair") =
            Overlapping(Self, new, p) \ Overlapping(Self, old, p)

\* a MoveProxy has run next to two live proxies and buffered an add for both
C8_Witness ==
  /\ last.op = "MoveProxy" /\ m_proxyCount = b2_maxProxies
  /\ Cardinality(Partners(last.calls, "AddBufferedPair")) = 2

(***************************************************************************)
(* C9. MoveProxy(p, newAabb) calls RemoveBufferedPair(p, q) for a live     *)
(* proxy q # p if and only if p's old quantized box overlapped q's box on  *)
(* both axes and p's new quantized box does not; one MoveProxy never       *)
(* buffers both an add and a remove for the same pair.                     *)
(***************************************************************************)
C9_MoveRemoves ==
  \A p \in Live(Self), aabb \in AABBs :
    LET S1 == MoveProxy(Self, p, aabb)
        old == StoredValues(Self, p)
        new == ComputeBounds(aabb)
    IN /\ AllFrom(S1.calls, "RemoveBufferedPair", p)
       /\ Partners(S1.calls, "RemoveBufferedPair") =
            Overlapping(Self, old, p) \ Overlapping(Self, new, p)
       /\ Partners(S1.calls, "RemoveBufferedPair") \cap Partners(S1.calls, "AddBufferedPair") = {}

\* a MoveProxy has run next to two live proxies and buffered a remove for one and an
\* add for the other
C9_Witness ==
  /\ last.op = "MoveProxy" /\ m_proxyCount = b2_maxProxies
  /\ Cardinality(Partners(last.calls, "RemoveBufferedPair")) = 1
  /\ Cardinality(Partners(last.calls, "AddBufferedPair")) = 1

(***************************************************************************)
(* C10. From any reachable state, id = CreateProxy(aabb, data) followed at *)
(* once by DestroyProxy(id) restores proxyCount, the free-list head and    *)
(* chain, on each axis the bound entries in use (value, proxyId,           *)
(* stabbingCount) and every other live proxy's bound indices; the proxies  *)
(* that get a remove-pair in the destroy are those that got an add-pair in *)
(* the create.                                                             *)
(***************************************************************************)
C10_RoundTrip ==
  m_freeProxy # b2_nullProxy =>
    \A aabb \in AABBs, userData \in Shapes :
      LET S1 == CreateProxy(Self, aabb, userData)
          S2 == DestroyProxy(S1, m_freeProxy)
      IN /\ ~S2.fault
         /\ S2.proxyCount = m_proxyCount
         /\ S2.freeProxy = m_freeProxy
         /\ FreeChain(S2) = FreeChain(Self)
         /\ S2.bounds = m_bounds
         /\ \A q \in Live(Self) : /\ S2.pool[q].lowerBounds = proxyPool[q].lowerBounds
                                  /\ S2.pool[q].upperBounds = proxyPool[q].upperBounds
         /\ Partners(S2.calls, "RemoveBufferedPair") = Partners(S1.calls, "AddBufferedPair")

\* the proxy created last next to two live proxies has been destroyed at once, and the
\* destroy buffered a remove
C10_Witness ==
  /\ last.op = "DestroyProxy" /\ m_proxyCount = b2_maxProxies - 1
  /\ m_freeProxy = b2_maxProxies - 1
  /\ LastCalled("RemoveBufferedPair")

(***************************************************************************)
(* C11. In every reachable state each pool slot is either free or live:    *)
(* the free list from m_freeProxy is acyclic, holds every slot that is not *)
(* live exactly once and no live slot, and proxyCount is the number of     *)
(* live slots (free-list length + proxyCount = pool capacity); CreateProxy *)
(* takes the free-list head and makes it live, DestroyProxy makes the id   *)
(* the new free-list head.                                                 *)
(***************************************************************************)
\* the ids on the free list
FreeSet(S) == {FreeChain(S)[i] : i \in 1 .. Len(FreeChain(S))}

C11_FreeOrLive ==
  /\ Cardinality(Live(Self)) = m_proxyCount
  /\ Len(FreeChain(Self)) + m_proxyCount = b2_maxProxies
  /\ FreeSet(Self) = ProxyIds \ Live(Self)
  /\ m_freeProxy # b2_nullProxy =>
       \A aabb \in AABBs, userData \in Shapes :
         LET S1 == CreateProxy(Self, aabb, userData)
         IN /\ Live(S1) = Live(Self) \cup {m_freeProxy}
            /\ m_freeProxy \notin Live(Self)
            /\ FreeChain(Self) = <<m_freeProxy>> \o FreeChain(S1)
            /\ S1.proxyCount = m_proxyCount + 1
  /\ \A p \in Live(Self) :
       LET S1 == DestroyProxy(Self, p)
       IN /\ Live(S1) = Live(Self) \ {p}
          /\ FreeChain(S1) = <<p>> \o FreeChain(Self)
          /\ S1.proxyCount = m_proxyCount - 1

\* a DestroyProxy has put slot 0 in front of the free slot 2 while slot 1 is live
C11_Witness ==
  /\ last.op = "DestroyProxy" /\ m_proxyCount = 1
  /\ Live(Self) = {1} /\ FreeChain(Self) = <<0, 2>>

(***************************************************************************)
(* What a call signals to its caller.  The source has no throw statement:  *)
(* a call either returns or dies in a TypeError on a property of undefined.*)
(***************************************************************************)
Thrown(S) == IF S.fault THEN "TypeError" ELSE "nothing"

\* the call that led from S to S1 has written nothing to the object
Untouched(S1, S) == [S1 EXCEPT !.fault = S.fault, !.calls = S.calls] = S

(***************************************************************************)
(* C12. CreateProxy called when the pool is exhausted (proxyCount =        *)
(* capacity, free-list head = null proxy) signals a distinct pool-exhausted*)
(* failure and leaves the free list, proxyCount, both bound arrays and the *)
(* pair buffer unchanged.                                                  *)
(***************************************************************************)
C12_ExhaustedSignalled ==
  (~fault /\ m_proxyCount = b2_maxProxies /\ m_freeProxy = b2_nullProxy) =>
    \A aabb \in AABBs, userData \in Shapes :
      LET S1 == CreateProxy(Self, aabb, userData)
      IN /\ Thrown(S1) = "pool exhausted"
         /\ Untouched(S1, Self)

(***************************************************************************)
(* C13. DestroyProxy or MoveProxy called with an in-range id whose proxy   *)
(* is not live signals an invalid-proxy-reference failure and mutates      *)
(* nothing: bound arrays, proxyCount, free list and pair buffer are        *)
(* unchanged.                                                              *)
(***************************************************************************)
C13_StaleSignalled ==
  (~fault /\ last.op \in {"CreateProxy", "DestroyProxy"}) =>
    \A proxyId \in ProxyIds \ Live(Self) :
      /\ LET S1 == DestroyProxy(Self, proxyId)
         IN /\ Thrown(S1) = "invalid proxy reference"
            /\ Untouched(S1, Self)
      /\ \A aabb \in AABBs :
           LET S1 == MoveProxy(Self, proxyId, aabb)
           IN /\ Thrown(S1) = "invalid proxy reference"
              /\ Untouched(S1, Self)

(***************************************************************************)
(* C14. CreateProxy called with a degenerate AABB (max <= min on some      *)
(* axis) is rejected as invalid geometry before any shared state is        *)
(* mutated: no proxy becomes live, the free list and proxyCount are        *)
(* unchanged, no bound is inserted and no pair event is buffered.          *)
(***************************************************************************)
C14_DegenerateRejected ==
  (~fault /\ m_freeProxy # b2_nullProxy /\ last.op \in {"CreateProxy", "DestroyProxy"}) =>
    \A aabb \in DegenerateAABBs, userData \in Shapes :
      LET S1 == CreateProxy(Self, aabb, userData)
      IN /\ Thrown(S1) = "invalid geometry"
         /\ Live(S1) = Live(Self)
         /\ FreeChain(S1) = FreeChain(Self)
         /\ S1.proxyCount = m_proxyCount
         /\ S1.bounds = m_bounds
         /\ ~\E i \in 1 .. Len(S1.calls) : S1.calls[i].fn = "AddBufferedPair"
         /\ S1.bufferedAdds = bufferedAdds

(***************************************************************************)
(* C15. MoveProxy called with the null proxy id, an id >= pool capacity,   *)
(* or an AABB for which IsValid() is false returns without changing        *)
(* anything: bound values, bound order, stabbing counts, proxy bound       *)
(* indices, generation counter and the pair buffer are all unchanged and   *)
(* no AddBufferedPair/RemoveBufferedPair is issued.                        *)
(***************************************************************************)
C15_RejectedMoveIsNoOp ==
  \A proxyId \in ProxyIds \cup NoSlotIds, aabb \in AABBs \cup DegenerateAABBs :
    (proxyId \in NoSlotIds \/ ~IsValid(aabb)) =>
      LET S1 == MoveProxy(Self, proxyId, aabb)
      IN /\ Thrown(S1) = Thrown(Self)
         /\ S1.bounds = m_bounds
         /\ S1.pool = proxyPool
         /\ S1.timeStamp = m_timeStamp
         /\ S1.bufferedAdds = bufferedAdds /\ S1.bufferedRemoves = bufferedRemoves
         /\ S1.pairs = pairs
         /\ S1.calls = << >>
         /\ Untouched(S1, Self)

\* a MoveProxy that was turned down has returned in a scene of three live proxies
C15_Witness ==
  /\ last.op = "MoveProxy(rejected)" /\ ~fault
  /\ m_proxyCount = b2_maxProxies /\ last.calls = << >>

(***************************************************************************)
(* C18. GetProxy(id) returns null when id is the null proxy or refers to a *)
(* slot that is not live, returns the pool entry when id is live, and      *)
(* returns null rather than failing for any other invalid id such as one   *)
(* at or beyond the pool capacity.                                         *)
(***************************************************************************)
C18_GetProxyNeverFails ==
  (~fault /\ last.op \in {"CreateProxy", "DestroyProxy"}) =>
    \A proxyId \in ProxyIds \cup NoSlotIds :
      LET r == GetProxy(Self, proxyId)
      IN /\ ~r.fault
         /\ r.slot = IF proxyId \in Live(Self) THEN proxyId ELSE b2_nullProxy

(***************************************************************************)
(* C16. QueryAABB leaves the sweep-and-prune topology unchanged: after it  *)
(* returns, both bound arrays (value, proxyId, stabbingCount at every      *)
(* index), every proxy's lower/upper bound indices, proxyCount, the free   *)
(* list and the pair buffer are identical to before the call; only the     *)
(* generation counter, the per-proxy timeStamp/overlapCount scratch and    *)
(* the query-result scratch may differ, and the query-result count is back *)
(* to 0.                                                                   *)
(***************************************************************************)
C16_QueryKeepsTopology ==
  \A aabb \in QueryAABBs, maxCount \in 0 .. b2_maxProxies :
    LET S1 == QueryAABB(Self, aabb, maxCount).S
    IN /\ S1.bounds = m_bounds
       /\ \A i \in ProxyIds :
            /\ S1.pool[i].lowerBounds = proxyPool[i].lowerBounds
            /\ S1.pool[i].upperBounds = proxyPool[i].upperBounds
            /\ S1.pool[i].next = proxyPool[i].next
            /\ S1.pool[i].userData = proxyPool[i].userData
       /\ S1.proxyCount = m_proxyCount
       /\ S1.freeProxy = m_freeProxy
       /\ FreeChain(S1) = FreeChain(Self)
       /\ S1.bufferedAdds = bufferedAdds /\ S1.bufferedRemoves = bufferedRemoves
       /\ S1.pairs = pairs
       /\ S1.calls = << >>
       /\ S1.queryResultCount = 0
       /\ ~S1.fault

\* a QueryAABB over three live proxies has returned and left a proxy it met on one axis
\* only with the stamp of the query and an overlap count of one
C16_Witness ==
  /\ last.op = "QueryAABB" /\ m_proxyCount = b2_maxProxies
  /\ m_queryResultCount = 0
  /\ \E p \in Live(Self) :
       /\ proxyPool[p].timeStamp = m_timeStamp - 1
       /\ proxyPool[p].overlapCount = 1

(***************************************************************************)
(* C17. MoveProxy never calls the pair manager's Commit, so pair events    *)
(* buffered by any number of consecutive MoveProxy calls stay buffered     *)
(* until the caller invokes Commit; CreateProxy and DestroyProxy each call *)
(* Commit exactly once, after all of their own AddBufferedPair and         *)
(* RemoveBufferedPair calls and (for DestroyProxy) before the id is pushed *)
(* back onto the free list.                                                *)
(***************************************************************************)
\* the places of the call log that hold a call of fn
Where(calls, fn) == {j \in 1 .. Len(calls) : calls[j].fn = fn}
\* the log has one Commit, and it is its last entry
CommitsLast(calls) == Where(calls, "Commit") = {Len(calls)} /\ Len(calls) > 0
\* the pairs the log's AddBufferedPair and RemoveBufferedPair calls name
Named(calls) ==
  {{calls[j].a, calls[j].b} : j \in Where(calls, "AddBufferedPair") \cup Where(calls, "RemoveBufferedPair")}

InUse == 0 .. (2 * m_proxyCount - 1)
BoundsOf(axis, p) == {i \in InUse : m_bounds[axis][i].proxyId = p}

C19_IndicesConsistent ==
  /\ \A axis \in Axes :
       /\ \A p \in Live(Self) :
            LET lower == proxyPool[p].lowerBounds[axis]
                upper == proxyPool[p].upperBounds[axis]
            IN /\ lower \in InUse /\ upper \in InUse
               /\ lower < upper /\ upper < 2 * m_proxyCount
               /\ IsLower(m_bounds[axis][lower]) /\ m_bounds[axis][lower].proxyId = p
               /\ IsUpper(m_bounds[axis][upper]) /\ m_bounds[axis][upper].proxyId = p
               /\ Cardinality({i \in BoundsOf(axis, p) : IsLower(m_bounds[axis][i])}) = 1
               /\ Cardinality({i \in BoundsOf(axis, p) : IsUpper(m_bounds[axis][i])}) = 1
       /\ \A i \in InUse : m_bounds[axis][i].proxyId \in Live(Self)
  /\ \A p \in ProxyIds \ Live(Self) :
       \A axis \in Axes : /\ proxyPool[p].lowerBounds[axis] = b2_invalid
                          /\ proxyPool[p].upperBounds[axis] = b2_invalid

\* after a MoveProxy one live proxy encloses the other on x and lies wholly before it on
\* y, next to a free slot
C19_Witness ==
  /\ last.op = "MoveProxy"
  /\ \E p \in Live(Self), q \in Live(Self) :
       /\ proxyPool[p].lowerBounds[0] < proxyPool[q].lowerBounds[0]
       /\ proxyPool[q].upperBounds[0] < proxyPool[p].upperBounds[0]
       /\ proxyPool[p].upperBounds[1] < proxyPool[q].lowerBounds[1]
  /\ \E f \in ProxyIds \ Live(Self) : proxyPool[f].upperBounds[1] = b2_invalid

(***************************************************************************)
(* C20. The generation counter always stays within 1..65535:               *)
(* IncrementTimeStamp at generation 65535 sets every pool proxy's          *)
(* timeStamp to 0 and the generation to 1, otherwise it adds 1;            *)
(* consequently at the start of every public operation every proxy's       *)
(* timeStamp is strictly less than the generation, so marks left by an     *)
(* earlier query (including across the wrap) never cause a proxy to be     *)
(* reported by a later query.                                              *)
(***************************************************************************)
C20_GenerationWraps ==
  /\ m_timeStamp \in 1 .. USHRT_MAX
  /\ \A i \in ProxyIds : proxyPool[i].timeStamp < m_timeStamp
  /\ LET S1 == IncrementTimeStamp(Self)
     IN IF m_timeStamp = 65535
          THEN S1.timeStamp = 1 /\ \A i \in ProxyIds : S1.pool[i].timeStamp = 0
          ELSE S1.timeStamp = m_timeStamp + 1 /\ S1.pool = proxyPool
  /\ \A aabb \in QueryAABBs :
       LET r == QueryAABB(Tagged(Self), aabb, b2_maxProxies)
           hits == Overlapping(Self, ComputeBounds(aabb), b2_nullProxy)
       IN /\ {r.userData[i] : i \in 1 .. Len(r.userData)} = hits
          /\ Len(r.userData) = Cardinality(hits)
          /\ r.S.timeStamp \in 1 .. USHRT_MAX
          /\ \A i \in ProxyIds : r.S.pool[i].timeStamp < r.S.timeStamp

\* the QueryAABB at generation 65535 found the live proxy, and the wrap after it has set
\* the generation to 1 and the proxy's stamp to 0
C20_Witness ==
  /\ last.op = "QueryAABB" /\ last.count = 1
  /\ m_timeStamp = 1
  /\ \E p \in Live(Self) : proxyPool[p].timeStamp = 0 /\ proxyPool[p].overlapCount = 2

(***************************************************************************)
(* C21. For every input AABB with max >= min (including AABBs partly or    *)
(* wholly outside the world, which are clamped, and AABBs of near-zero    *)
(* size at the world boundary), ComputeBounds yields on each axis an even  *)
(* lower value and an odd upper value with 0 <= lower < upper <= 65535;    *)
(* hence a lower bound and an upper bound never carry the same quantized   *)
(* value.                                                                  *)
(***************************************************************************)
C21_ComputeBounds ==
  /\ \A aabb \in WideAABBs : \A axis \in Axes :
       LET v == ComputeBounds(aabb)
       IN /\ v.lowerValues[axis] % 2 = 0
          /\ v.upperValues[axis] % 2 = 1
          /\ 0 <= v.lowerValues[axis]
          /\ v.lowerValues[axis] < v.upperValues[axis]
          /\ v.upperValues[axis] <= 65535
  /\ \A axis \in Axes : \A i, j \in 0 .. (2 * m_proxyCount - 1) :
       (IsLower(m_bounds[axis][i]) /\ IsUpper(m_bounds[axis][j])) =>
         m_bounds[axis][i].value # m_bounds[axis][j].value
  /\ \A p \in Live(Self) : \A axis \in Axes :
       StoredValues(Self, p).lowerValues[axis] < StoredValues(Self, p).upperValues[axis]

\* a CreateProxy with a box of no size on the world's upper boundary, or beyond it, has
\* stored the bounds 65534 and 65535 on both axes
C21_Witness ==
  /\ last.op = "CreateProxy" /\ m_proxyCount = 1
  /\ \E p \in Live(Self) : \A axis \in Axes :
       /\ StoredValues(Self, p).lowerValues[axis] = 65534
       /\ StoredValues(Self, p).upperValues[axis] = 65535

(***************************************************************************)
(* C22. In every Query issued by CreateProxy, DestroyProxy or QueryAABB    *)
(* from a reachable state, the hard-case backward walk terminates having   *)
(* found exactly s spanning proxies (s = stabbing count at lowerQuery-1)   *)
(* without ever reading a bound at an index below 0, i.e. the commented    *)
(* assertion i >= 0 holds on every iteration.                              *)
(***************************************************************************)
\* the live proxies whose lower bound is below index lowerQuery on the axis and whose
\* upper bound is not, and those whose lower bound is in [lowerQuery, upperQuery)
Spanning(axis, lowerQuery) ==
  {p \in Live(Self) : /\ proxyPool[p].lowerBounds[axis] < lowerQuery
                      /\ lowerQuery <= proxyPool[p].upperBounds[axis]}
Between(axis, lowerQuery, upperQuery) ==
  {p \in Live(Self) : /\ lowerQuery <= proxyPool[p].lowerBounds[axis]
                      /\ proxyPool[p].lowerBounds[axis] < upperQuery}

C22_HardWalk ==
  /\ \A aabb \in QueryAABBs, axis \in Axes :
       LET v == ComputeBounds(aabb)
           r == Query(Self, v.lowerValues[axis], v.upperValues[axis], m_bounds[axis],
                      2 * m_proxyCount, axis)
       IN /\ ~r.S.fault
          /\ r.lowerQuery > 0 =>
               m_bounds[axis][r.lowerQuery - 1].stabbingCount
                 = Cardinality(Spanning(axis, r.lowerQuery))
          /\ {p \in ProxyIds : r.S.pool[p].timeStamp = m_timeStamp}
               = Spanning(axis, r.lowerQuery) \cup Between(axis, r.lowerQuery, r.upperQuery)
  /\ \A aabb \in QueryAABBs : ~QueryAABB(Self, aabb, b2_maxProxies).S.fault
  /\ m_freeProxy # b2_nullProxy =>
       \A aabb \in AABBs, userData \in Shapes : ~CreateProxy(Self, aabb, userData).fault
  /\ \A p \in Live(Self) : ~DestroyProxy(Self, p).fault

\* a CreateProxy has put a proxy inside the x extent of the two others: its Query on x
\* started the walk at the bound below the new lower bound, with a stabbing count of two
C22_Witness ==
  /\ last.op = "CreateProxy" /\ m_proxyCount = b2_maxProxies
  /\ \E p \in Live(Self) :
       /\ \A q \in Live(Self) \ {p} :
            /\ proxyPool[q].lowerBounds[0] < proxyPool[p].lowerBounds[0]
            /\ proxyPool[p].upperBounds[0] < proxyPool[q].upperBounds[0]
       /\ m_bounds[0][proxyPool[p].lowerBounds[0] - 1].stabbingCount = 2
       /\ AllFrom(last.calls, "AddBufferedPair", p)
  /\ Cardinality(Partners(last.calls, "AddBufferedPair")) = 2

(***************************************************************************)
(* C23. Every AddBufferedPair(a, b) and RemoveBufferedPair(a, b) issued by *)
(* CreateProxy, DestroyProxy or MoveProxy has a != b, and both a and b are *)
(* live proxies at the moment of the call; a proxy is never paired with    *)
(* itself and never with a free slot.                                      *)
(***************************************************************************)
\* the log entries of the pair calls, and what holds of each of them when the operation
\* was called for proxy p with the proxies in others live beside it
PairCalls(calls) ==
  {calls[j] : j \in Where(calls, "AddBufferedPair") \cup Where(calls, "RemoveBufferedPair")}
ProperPairs(calls, p, others) ==
  \A c \in PairCalls(calls) : c.a = p /\ c.b \in others /\ c.a # c.b /\ c.live

C23_ProperPairs ==
  /\ m_freeProxy # b2_nullProxy =>
       \A aabb \in AABBs, userData \in Shapes :
         ProperPairs(CreateProxy(Self, aabb, userData).calls, m_freeProxy, Live(Self))
  /\ \A p \in Live(Self) :
       ProperPairs(DestroyProxy(Self, p).calls, p, Live(Self) \ {p})
  /\ \A p \in Live(Self), aabb \in AABBs :
       ProperPairs(MoveProxy(Self, p, aabb).calls, p, Live(Self) \ {p})
  /\ \A c \in PairCalls(last.calls) : c.a # c.b /\ c.live

\* a MoveProxy next to two live proxies has buffered an add with the one and a remove
\* with the other
C23_Witness ==
  /\ last.op = "MoveProxy" /\ m_proxyCount = b2_maxProxies
  /\ LastCalled("AddBufferedPair") /\ LastCalled("RemoveBufferedPair")
  /\ Partners(last.calls, "AddBufferedPair") # Partners(last.calls, "RemoveBufferedPair")

(***************************************************************************)
(* C24. MoveProxy(p, aabb) on a live proxy changes only p's own two bound  *)
(* values per axis and the array positions/stabbing counts of bounds:      *)
(* proxyCount, the free list, the generation counter, every other proxy's  *)
(* quantized lower/upper values, and the relative order among the other    *)
(* proxies' bounds on each axis are unchanged; if the new quantized values *)
(* equal p's current ones, no swap occurs, the whole state is unchanged    *)
(* and no pair event is buffered.                                          *)
(***************************************************************************)
\* the bounds in use on an axis that are not bounds of p, in array order, each as its
\* value and its proxy
OthersInOrder(S, axis, p) ==
  LET used == [i \in 1 .. (2 * S.proxyCount) |->
                 [value |-> S.bounds[axis][i - 1].value, proxyId |-> S.bounds[axis][i - 1].proxyId]]
  IN SelectSeq(used, LAMBDA b : b.proxyId # p)

C24_MoveFrame ==
  \A p \in Live(Self), aabb \in AABBs :
    LET S1 == MoveProxy(Self, p, aabb)
    IN /\ ~S1.fault
       /\ S1.proxyCount = m_proxyCount
       /\ S1.freeProxy = m_freeProxy /\ FreeChain(S1) = FreeChain(Self)
       /\ Live(S1) = Live(Self)
       /\ S1.timeStamp = m_timeStamp
       /\ S1.queryResultCount = m_queryResultCount /\ S1.pairs = pairs
       /\ \A i \in ProxyIds :
            [S1.pool[i] EXCEPT !.lowerBounds = proxyPool[i].lowerBounds,
                               !.upperBounds = proxyPool[i].upperBounds] = proxyPool[i]
       /\ StoredValues(S1, p) = ComputeBounds(aabb)
       /\ \A q \in Live(Self) \ {p} : StoredValues(S1, q) = StoredValues(Self, q)
       /\ \A axis \in Axes : OthersInOrder(S1, axis, p) = OthersInOrder(Self, axis, p)
       /\ ComputeBounds(aabb) = StoredValues(Self, p) => S1 = Self

\* a MoveProxy has taken a proxy from below the bounds of a second proxy to above them on
\* x, next to a third, and buffered the remove of a pair the pair manager holds
C24_Witness ==
  /\ last.op = "MoveProxy" /\ m_proxyCount = b2_maxProxies
  /\ \E c \in PairCalls(last.calls) :
       /\ c.fn = "RemoveBufferedPair" /\ {c.a, c.b} \in pairs
       /\ proxyPool[c.b].upperBounds[0] < proxyPool[c.a].lowerBounds[0]

====
